---- MODULE Spec2Model ----
(***************************************************************************)
(* Model of the weather relay backend (server.js).                         *)
(*                                                                         *)
(* The process holds one read-only credential, OPENWEATHER_API_KEY, read   *)
(* from the environment at start-up.  Each GET /api/weather request runs   *)
(* the async handler of server.js:31-85, which suspends twice: on          *)
(* `await fetch(url)` and on `await response.json()`.  Several requests    *)
(* may be suspended at the same time.  GET /health answers synchronously.  *)
(*                                                                         *)
(* JavaScript values are tagged records so that `!x`, `a || b`, property   *)
(* reads on undefined/null (TypeError) and JSON serialisation (keys whose  *)
(* value is undefined are dropped) behave as they do in the runtime.       *)
(***************************************************************************)
EXTENDS Integers, Sequences, FiniteSets, TLC

\* Number of lookup requests that may be in flight together.
MaxRequests == 2

\* Longest condition list (`weather`) the provider stub returns.
MaxConditions == 2

Requests == 1..MaxRequests

-----------------------------------------------------------------------------
(* JavaScript values *)

Undefined == [t |-> "undefined"]

Null == [t |-> "null"]

Str(s) == [t |-> "string", v |-> s]

Num(n) == [t |-> "number", v |-> n]

Obj(f) == [t |-> "object", v |-> f]

Arr(s) == [t |-> "array", v |-> s]

\* ToBoolean: undefined, null, "" and 0 are falsy; objects and arrays truthy.
Truthy(x) ==
    CASE x.t = "undefined" -> FALSE
      [] x.t = "null"      -> FALSE
      [] x.t = "string"    -> x.v # ""
      [] x.t = "number"    -> x.v # 0
      [] OTHER             -> TRUE

\* A property read `x.k` or `x[i]` throws TypeError when x is undefined or null.
Nullish(x) == x.t \in {"undefined", "null"}

\* `x.k` for a non-nullish x: own property of an object, otherwise undefined.
Prop(x, k) ==
    IF x.t = "object" /\ k \in DOMAIN x.v THEN x.v[k] ELSE Undefined

\* `x[i]` (zero-based) for a non-nullish x.
Index(x, i) ==
    IF x.t = "array" /\ i + 1 \in DOMAIN x.v THEN x.v[i + 1] ELSE Undefined

\* `a || b`
Or(a, b) == IF Truthy(a) THEN a ELSE b

\* JSON.stringify of a plain object as the client parses it back: keys whose
\* value is undefined are omitted from the wire body.
JsonStringify(rec) ==
    LET keys == {k \in DOMAIN rec : rec[k] # Undefined}
    IN  Obj([k \in keys |-> rec[k]])

-----------------------------------------------------------------------------
(* Inputs: query strings, credentials and provider stub responses *)

CityNames == <<"London", "Paris", "Oslo", "Lima">>

\* req.query.city of request r: absent, empty, or a city name.  Requests in
\* flight together ask for distinct cities.
Cities(r) == {Undefined, Str(""), Str(CityNames[((r - 1) % Len(CityNames)) + 1])}

\* process.env.OPENWEATHER_API_KEY: unset, set to the empty string, or set.
Keys == {Undefined, Str(""), Str("k3y")}

\* HTTP statuses the provider stub answers with.
Statuses == {200, 404, 503}

Descriptions == <<"clear sky", "few clouds", "light rain", "mist">>

Icons == <<"01d", "02d", "10d", "50d">>

\* The i-th entry of the provider's condition list.
Condition(i) ==
    Obj([description |-> Str(Descriptions[((i - 1) % Len(Descriptions)) + 1]),
         icon        |-> Str(Icons[((i - 1) % Len(Icons)) + 1])])

Conditions(n) == Arr([i \in 1..n |-> Condition(i)])

FullMain == Obj([temp |-> Num(21), feels_like |-> Num(19), humidity |-> Num(60)])

FullSys == Obj([country |-> Str("GB")])

\* Bodies carrying every field the handler reads, with 1..MaxConditions
\* condition entries.
WellFormedBodies ==
    {Obj([name |-> Str("London"), sys |-> FullSys, main |-> FullMain,
          weather |-> Conditions(n)]) : n \in 1..MaxConditions}
    \cup
    {Obj([name |-> Str("London"), sys |-> FullSys, main |-> FullMain,
          weather |-> Conditions(1), message |-> Num(0)])}

\* Bodies in which a block the handler dereferences is missing.
BrokenBodies ==
    {Null,
     Obj([name |-> Str("London"), sys |-> FullSys, main |-> FullMain,
          weather |-> Conditions(0)]),
     Obj([name |-> Str("London"), sys |-> FullSys, main |-> FullMain]),
     Obj([name |-> Str("London"), main |-> FullMain, weather |-> Conditions(1)]),
     Obj([name |-> Str("London"), sys |-> FullSys, weather |-> Conditions(1)])}

\* Bodies in which every block is there but a leaf field is missing.
PartialBodies ==
    {Obj([sys |-> FullSys, main |-> FullMain, weather |-> Conditions(1)]),
     Obj([name |-> Str("London"), sys |-> Obj(<<>>), main |-> FullMain,
          weather |-> Conditions(1)]),
     Obj([name |-> Str("London"), sys |-> FullSys,
          main |-> Obj([temp |-> Num(21), feels_like |-> Num(19)]),
          weather |-> Conditions(1)]),
     Obj([name |-> Str("London"), sys |-> FullSys, main |-> FullMain,
          weather |-> Arr(<<Obj([description |-> Str("mist")])>>)])}

\* Bodies the provider sends with an error status.
ErrorBodies ==
    {Obj([cod |-> Str("404"), message |-> Str("city not found")]),
     Obj([cod |-> Num(401), message |-> Str("")]),
     Obj([cod |-> Num(503)])}

\* Every value `await response.json()` may resolve to.
Bodies == WellFormedBodies \cup BrokenBodies \cup PartialBodies \cup ErrorBodies

-----------------------------------------------------------------------------
(* The handlers, as functions of what they read *)

\* res.status(s).json(b) / res.status(s).send(b)
Reply(s, b) == [status |-> s, body |-> b]

ErrorBody(m) == Obj([error |-> m])

\* Variant: only an absent city is rejected, an empty one passes.
CityMissingOnlyAbsent(c) == c = Undefined

\* server.js:36 `if (!city)`
CityMissing(c) == ~Truthy(c)

\* Variant: the credential check is left out.
KeyNeverMissing(k) == FALSE

\* server.js:42 `if (!OPENWEATHER_API_KEY)`
KeyMissing(k) == ~Truthy(k)

\* server.js:38
BadRequest == Reply(400, ErrorBody(Str("City parameter is required.")))

\* server.js:45
Misconfigured ==
    Reply(500, ErrorBody(Str("Server is not configured with the API key.")))

\* server.js:48: the provider request built from city and credential.
openWeatherMapUrl(c, k) == [q |-> c, appid |-> k, units |-> "metric"]

\* Variant: the provider request is issued before the credential check.
EntryFetchFirst(c, k) ==
    IF CityMissing(c) THEN [sent |-> <<BadRequest>>, fetches |-> <<>>]
    ELSE IF KeyMissing(k)
         THEN [sent |-> <<Misconfigured>>, fetches |-> <<openWeatherMapUrl(c, k)>>]
    ELSE [sent |-> <<>>, fetches |-> <<openWeatherMapUrl(c, k)>>]

\* Synchronous prefix of the handler (server.js:32-55): the responses it
\* sends and the provider requests it issues before its first await.
Entry(c, k) ==
    IF CityMissing(c) THEN [sent |-> <<BadRequest>>, fetches |-> <<>>]
    ELSE IF KeyMissing(k) THEN [sent |-> <<Misconfigured>>, fetches |-> <<>>]
    ELSE [sent |-> <<>>, fetches |-> <<openWeatherMapUrl(c, k)>>]

\* response.ok
Ok(status) == 200 <= status /\ status <= 299

\* Variant: an upstream error is always reported as 500.
UpstreamErrorAs500(status, data) ==
    Reply(500,
          ErrorBody(Or(Prop(data, "message"),
                       Str("Error fetching weather data from external API"))))

\* server.js:62
UpstreamError(status, data) ==
    Reply(status,
             ErrorBody(Or(Prop(data, "message"),
                          Str("Error fetching weather data from external API"))))

\* server.js:67-75 throws TypeError when data, data.sys, data.main,
\* data.weather or data.weather[0] is undefined or null.
WeatherInfoThrows(data) ==
    \/ Nullish(data)
    \/ Nullish(Prop(data, "sys"))
    \/ Nullish(Prop(data, "main"))
    \/ Nullish(Prop(data, "weather"))
    \/ Nullish(Index(Prop(data, "weather"), 0))

\* Variant: description and icon come from the last condition entry.
weatherInfoLastCondition(data) ==
    LET w == Prop(data, "weather")
        last == IF w.t = "array" THEN Len(w.v) - 1 ELSE 0
    IN  [city        |-> Prop(data, "name"),
         country     |-> Prop(Prop(data, "sys"), "country"),
         temperature |-> Prop(Prop(data, "main"), "temp"),
         feelsLike   |-> Prop(Prop(data, "main"), "feels_like"),
         description |-> Prop(Index(w, last), "description"),
         icon        |-> Prop(Index(w, last), "icon"),
         humidity    |-> Prop(Prop(data, "main"), "humidity")]

\* server.js:67-75
weatherInfo(data) ==
    [city        |-> Prop(data, "name"),
     country     |-> Prop(Prop(data, "sys"), "country"),
     temperature |-> Prop(Prop(data, "main"), "temp"),
     feelsLike   |-> Prop(Prop(data, "main"), "feels_like"),
     description |-> Prop(Index(Prop(data, "weather"), 0), "description"),
     icon        |-> Prop(Index(Prop(data, "weather"), 0), "icon"),
     humidity    |-> Prop(Prop(data, "main"), "humidity")]

Returned(seq) == [threw |-> FALSE, sent |-> seq]

Thrown(e, seq) == [threw |-> TRUE, error |-> e, sent |-> seq]

\* server.js:59-77: the try block after `data` is available.
TryBody(status, data) ==
    IF ~Ok(status)
    THEN IF Nullish(data) THEN Thrown("TypeError", <<>>)
         ELSE Returned(<<UpstreamError(status, data)>>)
    ELSE IF WeatherInfoThrows(data) THEN Thrown("TypeError", <<>>)
         ELSE Returned(<<Reply(200, JsonStringify(weatherInfo(data)))>>)

\* Variant: the caught error's name is passed on to the client.
CatchResponseLeaky(e) == Reply(500, ErrorBody(Str(e)))

\* server.js:83
CatchResponse(e) == Reply(500, ErrorBody(Str("Failed to fetch weather data.")))

\* Variant: no catch clause; a thrown exception leaves the handler.
GuardedNoCatch(outcome) ==
    [sent |-> outcome.sent, escaped |-> outcome.threw]

\* server.js:54,79-84: try { ... } catch (error) { ... }.  The result is what
\* was sent on `res` and whether an exception left the handler.
Guarded(outcome) ==
    IF outcome.threw
    THEN [sent |-> outcome.sent \o <<CatchResponse(outcome.error)>>,
          escaped |-> FALSE]
    ELSE [sent |-> outcome.sent, escaped |-> FALSE]

-----------------------------------------------------------------------------
(* The running process *)

VARIABLES
    OPENWEATHER_API_KEY,  \* server.js:11, read once at start-up
    pc,        \* per request: "idle", "fetch" (awaiting fetch), "json"
               \* (awaiting response.json()), "done" (handler returned)
    city,      \* per request: req.query.city
    fetches,   \* per request: the provider requests the handler issued
    upstream,  \* per request: what the provider stub answered
    sent,      \* per request: the replies written to `res`, in order
    escaped,   \* per request: an exception left the async handler
    health     \* outcome of the latest GET /health

vars == <<OPENWEATHER_API_KEY, pc, city, fetches, upstream, sent, escaped, health>>

NoAnswer == [kind |-> "none"]

\* Variant: /health reports the missing credential.
HealthCheckNeedsKey ==
    [sent |-> IF KeyMissing(OPENWEATHER_API_KEY)
              THEN <<Reply(500, Str("Backend is not configured"))>>
              ELSE <<Reply(200, Str("Backend is healthy!"))>>,
     fetches |-> <<>>]

\* server.js:88-90: the reply of GET /health and the provider requests it makes.
HealthCheck ==
    [sent |-> <<Reply(200, Str("Backend is healthy!"))>>, fetches |-> <<>>]

\* Variant: `response` is one module-level variable, overwritten by the latest
\* lookup whose fetch resolved.
responseShared(r) ==
    upstream[CHOOSE q \in Requests :
                /\ pc[q] = "json"
                /\ \A p \in Requests : pc[p] = "json" => p <= q]

\* server.js:55: the handler-local `response` of request r.
response(r) == upstream[r]

Init ==
    /\ OPENWEATHER_API_KEY \in Keys
    /\ pc = [r \in Requests |-> "idle"]
    /\ city = [r \in Requests |-> Undefined]
    /\ fetches = [r \in Requests |-> <<>>]
    /\ upstream = [r \in Requests |-> NoAnswer]
    /\ sent = [r \in Requests |-> <<>>]
    /\ escaped = [r \in Requests |-> FALSE]
    /\ health = [sent |-> <<>>, fetches |-> <<>>]

\* server.js:31-55: GET /api/weather?city=c arrives; the handler runs up to
\* its first await or its early return.
Receive(r, c) ==
    /\ pc[r] = "idle"
    /\ LET e == Entry(c, OPENWEATHER_API_KEY)
       IN  /\ city' = [city EXCEPT ![r] = c]
           /\ sent' = [sent EXCEPT ![r] = e.sent]
           /\ fetches' = [fetches EXCEPT ![r] = e.fetches]
           /\ pc' = [pc EXCEPT ![r] = IF Len(e.fetches) = 0 THEN "done" ELSE "fetch"]
    /\ UNCHANGED <<OPENWEATHER_API_KEY, upstream, escaped, health>>

\* server.js:55-56: fetch resolves with the provider's status line; the handler
\* goes on to await response.json().
FetchResolve(r, s) ==
    /\ pc[r] = "fetch"
    /\ upstream' = [upstream EXCEPT ![r] = [kind |-> "headers", status |-> s]]
    /\ pc' = [pc EXCEPT ![r] = "json"]
    /\ UNCHANGED <<OPENWEATHER_API_KEY, city, fetches, sent, escaped, health>>

\* server.js:55,79-84: fetch rejects (network failure).
FetchReject(r) ==
    /\ pc[r] = "fetch"
    /\ LET g == Guarded(Thrown("FetchError", <<>>))
       IN  /\ sent' = [sent EXCEPT ![r] = @ \o g.sent]
           /\ escaped' = [escaped EXCEPT ![r] = g.escaped]
    /\ upstream' = [upstream EXCEPT ![r] = [kind |-> "rejected"]]
    /\ pc' = [pc EXCEPT ![r] = "done"]
    /\ UNCHANGED <<OPENWEATHER_API_KEY, city, fetches, health>>

\* server.js:56-77,79-84: response.json() resolves with `data`; the rest of the
\* try block runs to the end of the handler.
JsonResolve(r, data) ==
    /\ pc[r] = "json"
    /\ LET g == Guarded(TryBody(response(r).status, data))
       IN  /\ sent' = [sent EXCEPT ![r] = @ \o g.sent]
           /\ escaped' = [escaped EXCEPT ![r] = g.escaped]
    /\ upstream' = [upstream EXCEPT ![r] =
                      [kind |-> "json", status |-> upstream[r].status, data |-> data]]
    /\ pc' = [pc EXCEPT ![r] = "done"]
    /\ UNCHANGED <<OPENWEATHER_API_KEY, city, fetches, health>>

\* server.js:56,79-84: response.json() rejects (body is not JSON).
JsonReject(r) ==
    /\ pc[r] = "json"
    /\ LET g == Guarded(Thrown("SyntaxError", <<>>))
       IN  /\ sent' = [sent EXCEPT ![r] = @ \o g.sent]
           /\ escaped' = [escaped EXCEPT ![r] = g.escaped]
    /\ upstream' = [upstream EXCEPT ![r] =
                      [kind |-> "unparsable", status |-> upstream[r].status]]
    /\ pc' = [pc EXCEPT ![r] = "done"]
    /\ UNCHANGED <<OPENWEATHER_API_KEY, city, fetches, health>>

\* server.js:88-90: GET /health.
Health ==
    /\ health' = HealthCheck
    /\ UNCHANGED <<OPENWEATHER_API_KEY, pc, city, fetches, upstream, sent, escaped>>

Next ==
    \/ \E r \in Requests : \E c \in Cities(r) : Receive(r, c)
    \/ \E r \in Requests, s \in Statuses : FetchResolve(r, s)
    \/ \E r \in Requests : FetchReject(r)
    \/ \E r \in Requests, d \in Bodies : JsonResolve(r, d)
    \/ \E r \in Requests : JsonReject(r)
    \/ Health

Spec == Init /\ [][Next]_vars

TypeOK ==
    /\ OPENWEATHER_API_KEY \in Keys
    /\ \A r \in Requests : pc[r] \in {"idle", "fetch", "json", "done"}

-----------------------------------------------------------------------------
(* Vocabulary of the properties, stated on what a client and the provider
   stub observe *)

Arrived(r) == pc[r] # "idle"

Done(r) == pc[r] = "done"

\* A string with at least one character.
NonEmptyString(x) == x.t = "string" /\ x.v # ""

\* The query parameter is absent or empty.
NoCity(r) == city[r] = Undefined \/ city[r] = Str("")

Configured == NonEmptyString(OPENWEATHER_API_KEY)

ErrorReply(s, text) == [status |-> s, body |-> Obj([error |-> Str(text)])]

\* The provider answered r with a status line and a body that parsed.
Parsed(r) == upstream[r].kind = "json"

ErrorStatus(r) ==
    /\ upstream[r].kind \in {"json", "unparsable"}
    /\ ~(upstream[r].status \in 200..299)

SuccessStatus(r) ==
    /\ upstream[r].kind \in {"json", "unparsable"}
    /\ upstream[r].status \in 200..299

SummaryFields ==
    {"city", "country", "temperature", "feelsLike", "description", "icon", "humidity"}

\* C1: a request without city (absent or empty) gets 400 "City parameter is
\* required." and no provider request is issued, whatever the credential is.
C1_MissingCityIs400 ==
    \A r \in Requests :
        (Arrived(r) /\ NoCity(r)) =>
            /\ Done(r)
            /\ sent[r] = <<ErrorReply(400, "City parameter is required.")>>
            /\ fetches[r] = <<>>

C1_Witness ==
    \E r, q \in Requests :
        /\ Done(r) /\ city[r] = Str("") /\ Configured
        /\ Done(q) /\ city[q] = Undefined

\* C2 as stated: with the credential unset every lookup, also one without
\* city, gets 500 "Server is not configured with the API key.".
C2_Original ==
    OPENWEATHER_API_KEY = Undefined =>
        \A r \in Requests :
            Arrived(r) =>
                /\ Done(r)
                /\ sent[r] = <<ErrorReply(500, "Server is not configured with the API key.")>>

\* C2 amended: with the credential unset every lookup with a non-empty city
\* gets 500 "Server is not configured with the API key."; a lookup whose city
\* is absent or empty gets the 400 of the validation step, which runs first.
C2_Amended ==
    OPENWEATHER_API_KEY = Undefined =>
        \A r \in Requests :
            Arrived(r) =>
                /\ Done(r)
                /\ sent[r] = IF NoCity(r)
                             THEN <<ErrorReply(400, "City parameter is required.")>>
                             ELSE <<ErrorReply(500, "Server is not configured with the API key.")>>

C2_Witness ==
    /\ OPENWEATHER_API_KEY = Undefined
    /\ \E r \in Requests : Done(r) /\ NonEmptyString(city[r])

\* C3: a handler invocation issues exactly one provider request when city is
\* non-empty and the credential is configured, at every later point of the
\* invocation and whatever the outcome, and none otherwise; no provider
\* request exists without a configured credential.
C3_OneCallPerInvocation ==
    \A r \in Requests :
        /\ Arrived(r) =>
              Len(fetches[r]) = IF NonEmptyString(city[r]) /\ Configured THEN 1 ELSE 0
        /\ ~Arrived(r) => Len(fetches[r]) = 0
        /\ Len(fetches[r]) > 0 => Configured

C3_Witness ==
    \E r, q \in Requests :
        /\ Done(r) /\ upstream[r].kind = "rejected" /\ Len(fetches[r]) = 1
        /\ Done(q) /\ ErrorStatus(q) /\ Len(fetches[q]) = 1

\* The message C4 expects: the provider's `message` field if the body has
\* one, else the fallback.
C4_MessageIfPresent(r) ==
    IF Parsed(r) /\ upstream[r].data.t = "object"
       /\ "message" \in DOMAIN upstream[r].data.v
    THEN upstream[r].data.v.message
    ELSE Str("Error fetching weather data from external API")

\* C4 as stated: for every non-2xx provider status and every body the reply
\* carries the provider's status and the message field if present.
C4_Original ==
    \A r \in Requests :
        (Done(r) /\ ErrorStatus(r)) =>
            sent[r] = <<[status |-> upstream[r].status,
                         body |-> Obj([error |-> C4_MessageIfPresent(r)])]>>

\* The message the handler forwards: the provider's `message` when it is a
\* non-empty string (a truthy value), else the fallback.
C4_MessageIfTruthy(r) ==
    IF upstream[r].data.t = "object"
       /\ "message" \in DOMAIN upstream[r].data.v
       /\ Truthy(upstream[r].data.v.message)
    THEN upstream[r].data.v.message
    ELSE Str("Error fetching weather data from external API")

\* C4 amended: for every non-2xx provider status whose body parses as JSON to
\* a value other than null, the reply carries the provider's status and
\* { error: m }, m being the provider's `message` when it is present and
\* truthy (not empty) and the fallback otherwise; when the body does not parse
\* or is null the reply is 500 "Failed to fetch weather data.".
C4_Amended ==
    \A r \in Requests :
        (Done(r) /\ ErrorStatus(r)) =>
            IF Parsed(r) /\ upstream[r].data # Null
            THEN sent[r] = <<[status |-> upstream[r].status,
                              body |-> Obj([error |-> C4_MessageIfTruthy(r)])]>>
            ELSE sent[r] = <<ErrorReply(500, "Failed to fetch weather data.")>>

C4_Witness ==
    \E r \in Requests :
        /\ Done(r) /\ Parsed(r) /\ upstream[r].status = 404
        /\ upstream[r].data = Obj([cod |-> Str("404"), message |-> Str("city not found")])
        /\ sent[r] = <<ErrorReply(404, "city not found")>>

\* C5: when fetch rejects or the provider's body is not JSON, the reply is
\* 500 with exactly { error: "Failed to fetch weather data." }.
C5_TransportFailureIs500 ==
    \A r \in Requests :
        (Done(r) /\ upstream[r].kind \in {"rejected", "unparsable"}) =>
            sent[r] = <<ErrorReply(500, "Failed to fetch weather data.")>>

C5_Witness ==
    \E r, q \in Requests :
        /\ Done(r) /\ upstream[r].kind = "rejected"
        /\ Done(q) /\ upstream[q].kind = "unparsable"

\* C6: a well-formed body with a success status yields 200 and a summary that
\* copies name, sys.country, main.temp, main.feels_like, main.humidity and the
\* first condition's description and icon under the new names, with no other
\* field.
C6_SummaryIsRenamedCopy ==
    \A r \in Requests :
        (Done(r) /\ SuccessStatus(r) /\ Parsed(r)
         /\ upstream[r].data \in WellFormedBodies) =>
            LET d == upstream[r].data.v
            IN  sent[r] = <<[status |-> 200,
                             body |-> Obj([city        |-> d.name,
                                           country     |-> d.sys.v.country,
                                           temperature |-> d.main.v.temp,
                                           feelsLike   |-> d.main.v.feels_like,
                                           description |-> d.weather.v[1].v.description,
                                           icon        |-> d.weather.v[1].v.icon,
                                           humidity    |-> d.main.v.humidity])]>>

C6_Witness ==
    \E r \in Requests :
        /\ Done(r) /\ SuccessStatus(r) /\ Parsed(r)
        /\ upstream[r].data \in WellFormedBodies
        /\ Len(upstream[r].data.v.weather.v) > 1
        /\ sent[r][1].status = 200

\* C7: every reply to a lookup is an error body { error } or a summary with
\* all seven fields; never a summary with some fields missing.
C7_NoPartialSuccess ==
    \A r \in Requests :
        \A i \in 1..Len(sent[r]) :
            \/ DOMAIN sent[r][i].body.v = {"error"}
            \/ DOMAIN sent[r][i].body.v = SummaryFields

\* The failures C8 lists, told from what was asked and what the provider
\* answered, with the status each is converted to.
C8_FailureStatus(r) ==
    IF NoCity(r) THEN 400
    ELSE IF ~Configured THEN 500
    ELSE IF upstream[r].kind \in {"rejected", "unparsable"} THEN 500
    ELSE IF upstream[r].data = Null THEN 500
    ELSE IF ErrorStatus(r) THEN upstream[r].status
    ELSE IF \/ ~("sys" \in DOMAIN upstream[r].data.v)
            \/ ~("main" \in DOMAIN upstream[r].data.v)
            \/ ~("weather" \in DOMAIN upstream[r].data.v)
            \/ Len(upstream[r].data.v.weather.v) = 0 THEN 500
    ELSE 200

C9_HealthAlways200 ==
    /\ health.sent \in {<<>>, <<[status |-> 200, body |-> Str("Backend is healthy!")]>>}
    /\ health.fetches = <<>>

C9_Witness ==
    /\ Len(health.sent) = 1
    /\ OPENWEATHER_API_KEY = Undefined
    /\ \E r \in Requests : Done(r)

\* The replies of a lookup handled alone: entry, then the provider's answer.
Alone(c, k, u) ==
    LET e == Entry(c, k)
    IN  IF Len(e.fetches) = 0 THEN e.sent
        ELSE IF u.kind = "rejected" THEN Guarded(Thrown("FetchError", <<>>)).sent
        ELSE IF u.kind = "unparsable" THEN Guarded(Thrown("SyntaxError", <<>>)).sent
        ELSE Guarded(TryBody(u.status, u.data)).sent

\* C10: whatever the interleaving of the lookups in flight, each finished
\* lookup's replies are those of the same lookup handled alone on its own city
\* and its own provider answer, and the credential never changes.
C10_NoInterference ==
    /\ [](\A r \in Requests :
            Done(r) => sent[r] = Alone(city[r], OPENWEATHER_API_KEY, upstream[r]))
    /\ [][OPENWEATHER_API_KEY' = OPENWEATHER_API_KEY]_vars

C10_Witness ==
    \E r, q \in Requests :
        /\ Done(r) /\ Done(q)
        /\ NonEmptyString(city[r]) /\ NonEmptyString(city[q]) /\ city[r] # city[q]
        /\ Parsed(r) /\ Parsed(q)
        /\ upstream[r].status = 200 /\ upstream[q].status = 404
        /\ sent[r] # sent[q]

====
